---- MODULE Spec2Model ----
(***************************************************************************)
(* Verification model of the two in-memory vector store adapters of        *)
(* embdloader:                                                             *)
(*   FaissVectorStore  (infrastructure/vector_stores/faiss_store.py)       *)
(*   ChromaVectorStore (infrastructure/vector_stores/chroma_store.py)      *)
(* A behaviour is the life of one adapter instance of either class.  A     *)
(* pandas DataFrame is                                                     *)
(* a record [columns, rows]: the ordered column labels and the rows in     *)
(* positional order (every frame the adapters store was built with         *)
(* ignore_index=True, so the row label of a stored row is its position).   *)
(***************************************************************************)
EXTENDS Integers, Sequences, FiniteSets, TLC

VARIABLES
    backend,    \* class of the adapter instance: "faiss" or "chroma"
    store,      \* the instance: [indexes, data, schemas] of a FaissVectorStore,
                \* [collections, schemas, data] of a ChromaVectorStore
    ret,        \* the last call: its name, arguments, exception and value
    hist,       \* history: the table names passed to create_table, and what
                \* the first create_table call that returned, returned
    load        \* history: the last reconciliation run

vars == <<backend, store, ret, hist, load>>

(***************************************************************************)
(* Cell values.  Every cell is a string so that cells compare.             *)
(***************************************************************************)
NaN     == "NaN"      \* numpy.nan: the fill value of a column a frame lacks
None    == "None"     \* Python None
PyTrue  == "True"
PyFalse == "False"

Tables   == {"t1"}
Keys     == {"1", "2"}
Names    == {"a", "b"}
Vectors  == {"v0", "v1", "v2"}

\* Embedding vectors lie on a line; Coord is the coordinate of a vector.
Coord(v) == CASE v = "v0" -> 0 [] v = "v1" -> 1 [] v = "v2" -> 2

\* Bounds of the model.
\* Rows a table may hold before the adapter calls are cut off.
MaxRows == 2
\* Rows a table may hold before the reconciliation runs are cut off: a key is
\* loaded, dropped and loaded again.
MaxLoadRows == 3
\* Rows of one input batch.
MaxBatch == 2
\* Largest top_k passed to search.
MaxTopK == 3

(***************************************************************************)
(* Python dict with insertion order: keys in order, val the mapping.       *)
(***************************************************************************)
EmptyDict == [keys |-> <<>>, val |-> <<>>]

DictHas(d, k) == \E i \in 1..Len(d.keys) : d.keys[i] = k

DictGet(d, k) == LET i == CHOOSE j \in 1..Len(d.keys) : d.keys[j] = k IN d.val[i]

\* d[k] = v : a new key goes last, an existing key keeps its position.
DictSet(d, k, v) ==
    IF DictHas(d, k)
    THEN [keys |-> d.keys,
          val  |-> [i \in 1..Len(d.keys) |-> IF d.keys[i] = k THEN v ELSE d.val[i]]]
    ELSE [keys |-> Append(d.keys, k), val |-> Append(d.val, v)]

Put(f, k, v) == [x \in (DOMAIN f) \cup {k} |-> IF x = k THEN v ELSE f[x]]

SeqSet(s) == {s[i] : i \in 1..Len(s)}

\* Op applied to the value of v, v being evaluated once.
Bind(v, Op(_)) == CHOOSE r \in {Op(x) : x \in {v}} : TRUE

(***************************************************************************)
(* pandas                                                                  *)
(***************************************************************************)
\* pd.DataFrame(): no columns, no rows.
EmptyFrame == [columns |-> <<>>, rows |-> <<>>]

Cols(df) == SeqSet(df.columns)

\* A row of a frame re-expressed over other column labels: NaN where absent.
Reindex(r, colset) == [c \in colset |-> IF c \in DOMAIN r THEN r[c] ELSE NaN]

RECURSIVE NewLabels(_, _)
NewLabels(have, labels) ==
    IF labels = <<>> THEN <<>>
    ELSE IF Head(labels) \in have THEN NewLabels(have, Tail(labels))
    ELSE <<Head(labels)>> \o NewLabels(have \cup {Head(labels)}, Tail(labels))

\* pd.concat([a, b], ignore_index=True): union of the columns in order of
\* first appearance, a's rows then b's rows, NaN for the cells a frame lacks.
Concat(a, b) ==
    LET cols   == a.columns \o NewLabels(Cols(a), b.columns)
        colset == SeqSet(cols)
    IN  [columns |-> cols,
         rows    |-> [i \in 1..(Len(a.rows) + Len(b.rows)) |->
                        IF i <= Len(a.rows) THEN Reindex(a.rows[i], colset)
                        ELSE Reindex(b.rows[i - Len(a.rows)], colset)]]

\* frame[frame["is_active"] != False]
IsActiveRow(r) == r["is_active"] # PyFalse

(***************************************************************************)
(* Schema synthesis (create_table, both adapters)                          *)
(***************************************************************************)
VectorType == "vector(DEFAULT_DIMENTION)"

Enc(col) == col \o "_enc"

RECURSIVE SetEach(_, _, _)
\* for col in cols: d[col] = ty
SetEach(d, cols, ty) ==
    IF cols = <<>> THEN d ELSE SetEach(DictSet(d, Head(cols), ty), Tail(cols), ty)

RECURSIVE SetEachEnc(_, _)
\* for col in embed_columns_names: d[f"{col}_enc"] = vector
SetEachEnc(d, cols) ==
    IF cols = <<>> THEN d
    ELSE SetEachEnc(DictSet(d, Enc(Head(cols)), VectorType), Tail(cols))

\* ColumnTypes with the mode test lost: the combined columns in either mode.
ColumnTypesAlwaysCombined(df_columns, embed_type, embed_columns_names) ==
    LET c0 == SetEach(EmptyDict, df_columns, "text")
        c1 == DictSet(c0, "embed_columns_names", "text[]")
        c2 == DictSet(DictSet(c1, "embed_columns_value", "text"), "embeddings", VectorType)
    IN  DictSet(c2, "is_active", "boolean")

ColumnTypes(df_columns, embed_type, embed_columns_names) ==
    LET c0 == SetEach(EmptyDict, df_columns, "text")
        c1 == DictSet(c0, "embed_columns_names", "text[]")
        c2 == IF embed_type = "combined"
              THEN DictSet(DictSet(c1, "embed_columns_value", "text"),
                           "embeddings", VectorType)
              ELSE SetEachEnc(c1, embed_columns_names)
    IN  DictSet(c2, "is_active", "boolean")

\* TableSchema(columns=column_types, nullables={col: True for col in column_types})
TableSchema(column_types) ==
    [columns   |-> column_types,
     nullables |-> [keys |-> column_types.keys,
                    val  |-> [i \in 1..Len(column_types.keys) |-> TRUE]]]

\* What a call that returns nothing, or raises, hands back.
Void == <<>>

\* Outcome of a call: the adapter afterwards, the exception raised ("ok" if
\* none) and the value returned.
Outcome(st, err, val) == [st |-> st, err |-> err, val |-> val]

(***************************************************************************)
(* FaissVectorStore                                                         *)
(***************************************************************************)
FaissInit == [indexes |-> <<>>, data |-> <<>>, schemas |-> <<>>]

\* FaissCreateTable without the test for an existing table.
FaissCreateTableNoGuard(st, table_name, df, pk_columns, embed_type, embed_columns_names) ==
    LET column_types == ColumnTypes(df.columns, embed_type, embed_columns_names)
    IN  Outcome([schemas |-> Put(st.schemas, table_name, TableSchema(column_types)),
                 data    |-> Put(st.data, table_name,
                                 [columns |-> column_types.keys, rows |-> <<>>]),
                 indexes |-> Put(st.indexes, table_name, <<>>)],
                "ok", column_types)

FaissCreateTable(st, table_name, df, pk_columns, embed_type, embed_columns_names) ==
    IF table_name \in DOMAIN st.indexes
    THEN Outcome(st, "ok", st.schemas[table_name].columns)
    ELSE LET column_types == ColumnTypes(df.columns, embed_type, embed_columns_names)
         IN  Outcome([schemas |-> Put(st.schemas, table_name, TableSchema(column_types)),
                      data    |-> Put(st.data, table_name,
                                      [columns |-> column_types.keys, rows |-> <<>>]),
                      indexes |-> Put(st.indexes, table_name, <<>>)],
                     "ok", column_types)

\* df["embeddings"].tolist(): the vectors of a batch in row order.
EmbeddingsOf(df) == [i \in 1..Len(df.rows) |-> df.rows[i]["embeddings"]]

\* FaissInsertData without the test for the primary-key columns.
FaissInsertDataNoPkCheck(st, table_name, df, pk_columns) ==
    IF table_name \notin DOMAIN st.data
    THEN Outcome(st, "DBOperationError", Void)
    ELSE LET st1 == [st EXCEPT !.data = Put(st.data, table_name,
                                            Concat(st.data[table_name], df))]
         IN  IF "embeddings" \in Cols(df)
             THEN Outcome([st1 EXCEPT !.indexes =
                              Put(st.indexes, table_name,
                                  st.indexes[table_name] \o EmbeddingsOf(df))],
                          "ok", Void)
             ELSE Outcome(st1, "ok", Void)

FaissInsertData(st, table_name, df, pk_columns) ==
    IF table_name \notin DOMAIN st.data
    THEN Outcome(st, "DBOperationError", Void)
    ELSE IF \E i \in 1..Len(pk_columns) : pk_columns[i] \notin Cols(df)
    THEN Outcome(st, "DataValidationError", Void)
    ELSE LET st1 == [st EXCEPT !.data = Put(st.data, table_name,
                                            Concat(st.data[table_name], df))]
         IN  IF "embeddings" \in Cols(df)
             THEN Outcome([st1 EXCEPT !.indexes =
                              Put(st.indexes, table_name,
                                  st.indexes[table_name] \o EmbeddingsOf(df))],
                          "ok", Void)
             ELSE Outcome(st1, "ok", Void)

\* Squared L2 distance of IndexFlatL2.
Distance(q, v) == (Coord(q) - Coord(v)) * (Coord(q) - Coord(v))

\* The distance faiss reports with label -1 when the index holds fewer than
\* top_k vectors (3.4028235e+38): larger than every distance of the model.
NoNeighbourDist == 10 * 10

\* Position p (0-based) comes before position r in the result of a search.
Nearer(index, q, p, r) ==
    \/ Distance(q, index[p + 1]) < Distance(q, index[r + 1])
    \/ Distance(q, index[p + 1]) = Distance(q, index[r + 1]) /\ p < r

\* index.search(query, top_k): labels and distances, nearest first, padded
\* with label -1 up to top_k entries.
IndexSearch(index, q, top_k) ==
    [k \in 1..top_k |->
        IF k <= Len(index)
        THEN LET p == CHOOSE x \in 0..(Len(index) - 1) :
                        Cardinality({y \in 0..(Len(index) - 1) : Nearer(index, q, y, x)}) = k - 1
             IN  [label |-> p, distance |-> Distance(q, index[p + 1])]
        ELSE [label |-> -1, distance |-> NoNeighbourDist]]

\* frame.iloc[idx] position (1-based here) of a Python index, negative
\* indices counting from the end.
Iloc(n, idx) == IF idx >= 0 THEN idx + 1 ELSE n + idx + 1

FaissSearch(st, table_name, query_embedding, top_k) ==
    IF table_name \notin DOMAIN st.indexes
    THEN Outcome(st, "DBOperationError", Void)
    ELSE LET found == IndexSearch(st.indexes[table_name], query_embedding, top_k)
             rows  == st.data[table_name].rows
             n     == Len(rows)
             kept  == SelectSeq(found, LAMBDA f : f.label < n)
         IN  IF \E k \in 1..Len(kept) : Iloc(n, kept[k].label) \notin 1..n
             THEN Outcome(st, "IndexError", Void)
             ELSE Outcome(st, "ok",
                          [k \in 1..Len(kept) |->
                              [iloc     |-> Iloc(n, kept[k].label),
                               row      |-> rows[Iloc(n, kept[k].label)],
                               distance |-> kept[k].distance]])

\* frame[column_name] = value : the column on every row, a new column last.
SetColumn(frame, column_name, value) ==
    [columns |-> IF column_name \in Cols(frame) THEN frame.columns
                 ELSE Append(frame.columns, column_name),
     rows    |-> [i \in 1..Len(frame.rows) |->
                    [c \in Cols(frame) \cup {column_name} |->
                        IF c = column_name THEN value ELSE frame.rows[i][c]]]]

FaissAddColumn(st, table_name, column_name, column_type) ==
    IF table_name \notin DOMAIN st.schemas
    THEN Outcome(st, "DBOperationError", Void)
    ELSE Outcome([st EXCEPT
                    !.schemas[table_name].columns =
                        DictSet(st.schemas[table_name].columns, column_name, column_type),
                    !.data[table_name] = SetColumn(st.data[table_name], column_name, None)],
                 "ok", Void)

\* ActiveData with the test `== True` in place of `!= False`.
ActiveDataOnlyTrue(frame) ==
    IF "is_active" \in Cols(frame)
    THEN [columns |-> frame.columns,
          rows    |-> SelectSeq(frame.rows, LAMBDA r : r["is_active"] = PyTrue)]
    ELSE frame

\* The frame get_active_data returns.
ActiveData(frame) ==
    IF "is_active" \in Cols(frame)
    THEN [columns |-> frame.columns, rows |-> SelectSeq(frame.rows, IsActiveRow)]
    ELSE frame

FaissGetActiveData(st, table_name) ==
    IF table_name \notin DOMAIN st.data THEN EmptyFrame
    ELSE ActiveData(st.data[table_name])

FaissGetDataColumns(st, table_name) ==
    IF table_name \in DOMAIN st.schemas THEN st.schemas[table_name].columns.keys
    ELSE <<>>

\* The names of the form <c>_enc among the column names of the model
\* (`"_enc" in c`).
ContainsEnc(c) == c \in {Enc(x) : x \in {"id", "k2", "name", "price", "description"}}

FaissGetEmbedColumnsNames(st, table_name) ==
    IF table_name \notin DOMAIN st.schemas THEN <<>>
    ELSE SelectSeq(st.schemas[table_name].columns.keys,
                   LAMBDA c : ContainsEnc(c) \/ c = "embeddings")

\* MarkRows with the row mask lost: the flag is set on every row.
MarkRowsAll(frame, pk_values) ==
    [columns |-> frame.columns,
     rows    |-> [i \in 1..Len(frame.rows) |->
                    [frame.rows[i] EXCEPT !["is_active"] = PyFalse]]]

\* frame.loc[frame[pk_col].isin(pk_values), "is_active"] = False, pk_col the
\* first column of the frame.
MarkRows(frame, pk_values) ==
    LET pk_col == frame.columns[1]
        colset == Cols(frame) \cup {"is_active"}
    IN  [columns |-> IF "is_active" \in Cols(frame) THEN frame.columns
                     ELSE Append(frame.columns, "is_active"),
         rows    |-> [i \in 1..Len(frame.rows) |->
                        [c \in colset |->
                            IF c = "is_active" /\ frame.rows[i][pk_col] \in pk_values
                            THEN PyFalse
                            ELSE Reindex(frame.rows[i], colset)[c]]]]

FaissSetInactive(st, table_name, pk_values) ==
    IF table_name \notin DOMAIN st.data \/ pk_values = {}
    THEN Outcome(st, "ok", Void)
    ELSE Outcome([st EXCEPT !.data[table_name] = MarkRows(st.data[table_name], pk_values)],
                 "ok", Void)


\* existing[pk] == row[pk], elementwise: a missing value equals nothing.
CellEq(a, b) == a = b /\ a \notin {NaN, None}

\* The rows selected by existing_idx with NaN in every column.
NaNFill(frame, idx) ==
    [columns |-> frame.columns,
     rows    |-> [i \in 1..Len(frame.rows) |->
                    IF i \in idx THEN [c \in Cols(frame) |-> NaN] ELSE frame.rows[i]]]

\* One pass of the inner loop of update_data on the loop state
\*   existing : the local frame `existing`
\*   stored   : the frame self.data[table_name] refers to
\*   aliased  : `existing` is still that same object (no concat rebound it)
\*   err      : the exception raised so far
\* `existing.loc[existing_idx, :] = row` assigns a Series under a list-like
\* row indexer, which pandas aligns with the selected ROW labels: the Series
\* is labelled by column names, so the aligned value is one NaN per selected
\* row and the values of `row` are never written.  What becomes of the NaNs
\* depends on the block layout of the frame:
\*   - one block (all columns of one dtype) and one selected row: the NaN is
\*     broadcast over the row;
\*   - as many selected rows as columns: each column is set to NaN;
\*   - otherwise the lengths do not fit and the assignment raises ValueError.
UpdateRowStep(s, pk, row, df_columns, single_block) ==
    IF s.err # "ok" THEN s
    ELSE LET existing_idx == {i \in 1..Len(s.existing.rows) :
                                CellEq(s.existing.rows[i][pk], row[pk])}
         IN  IF existing_idx # {}
             THEN IF \/ single_block /\ Cardinality(existing_idx) = 1
                     \/ Cardinality(existing_idx) = Len(s.existing.columns)
                  THEN LET e == NaNFill(s.existing, existing_idx)
                       IN  [s EXCEPT !.existing = e,
                                     !.stored = IF s.aliased THEN e ELSE s.stored]
                  ELSE [s EXCEPT !.err = "ValueError"]
             ELSE [s EXCEPT !.existing = Concat(s.existing,
                                                [columns |-> df_columns, rows |-> <<row>>]),
                            !.aliased = FALSE]

UpdateRow(s, pk, row, df_columns, single_block) ==
    Bind(s, LAMBDA v : UpdateRowStep(v, pk, row, df_columns, single_block))

RECURSIVE UpdateRows(_, _, _, _, _)
\* for _, row in df.iterrows(): ...
UpdateRows(s, pk, rows, df_columns, single_block) ==
    IF rows = <<>> THEN s
    ELSE UpdateRows(UpdateRow(s, pk, Head(rows), df_columns, single_block),
                    pk, Tail(rows), df_columns, single_block)

\* One pass of the outer loop: a key column the batch or the table lacks
\* is skipped.
UpdatePk(s, pk, df, single_block) ==
    Bind(s, LAMBDA v : IF pk \notin Cols(df) \/ pk \notin Cols(v.existing) THEN v
                       ELSE UpdateRows(v, pk, df.rows, df.columns, single_block))

RECURSIVE UpdatePks(_, _, _, _)
\* for pk in pk_columns: ...
UpdatePks(s, pk_columns, df, single_block) ==
    IF pk_columns = <<>> THEN s
    ELSE UpdatePks(UpdatePk(s, Head(pk_columns), df, single_block),
                   Tail(pk_columns), df, single_block)

\* The frame update_data leaves in self.data[table_name], and the exception.
UpdateFrame(frame, df, pk_columns, single_block) ==
    Bind(UpdatePks([existing |-> frame, stored |-> frame, aliased |-> TRUE,
                    err |-> "ok"], pk_columns, df, single_block),
         LAMBDA s : [frame |-> IF s.err = "ok" THEN s.existing ELSE s.stored,
                     err   |-> s.err])

\* FaissUpdateData taking an unknown table for an empty one: the batch
\* becomes the table.
FaissUpdateDataCreates(st, table_name, df, pk_columns, single_block) ==
    IF table_name \notin DOMAIN st.data
    THEN Outcome([st EXCEPT !.data = Put(st.data, table_name, df)], "ok", Void)
    ELSE Bind(UpdateFrame(st.data[table_name], df, pk_columns, single_block),
              LAMBDA u : Outcome([st EXCEPT !.data[table_name] = u.frame], u.err, Void))

\* single_block: the frame of the table is stored as one block.
FaissUpdateData(st, table_name, df, pk_columns, single_block) ==
    IF table_name \notin DOMAIN st.data
    THEN Outcome(st, "DBOperationError", Void)
    ELSE Bind(UpdateFrame(st.data[table_name], df, pk_columns, single_block),
              LAMBDA u : Outcome([st EXCEPT !.data[table_name] = u.frame], u.err, Void))


(***************************************************************************)
(* ChromaVectorStore                                                        *)
(***************************************************************************)
ChromaInit == [collections |-> <<>>, schemas |-> <<>>, data |-> <<>>]

\* client_ok: whether client.create_collection(name=table_name) succeeds.
ChromaCreateTable(st, table_name, df, pk_columns, embed_type, embed_columns_names, client_ok) ==
    IF table_name \in DOMAIN st.collections
    THEN Outcome(st, "ok", st.schemas[table_name].columns)
    ELSE LET column_types == ColumnTypes(df.columns, embed_type, embed_columns_names)
             st1 == [st EXCEPT
                       !.schemas = Put(st.schemas, table_name, TableSchema(column_types)),
                       !.data    = Put(st.data, table_name,
                                       [columns |-> column_types.keys, rows |-> <<>>])]
         IN  IF client_ok
             THEN Outcome([st1 EXCEPT !.collections = Put(st.collections, table_name, <<>>)],
                          "ok", column_types)
             ELSE Outcome(st1, "ChromaError", Void)

\* str(i) for the row labels of a batch.
Str(i) == CASE i = 0 -> "0" [] i = 1 -> "1" [] i = 2 -> "2" [] i = 3 -> "3"
            [] OTHER -> "4"

\* collection.add(embeddings, documents, ids): one entry per id, in order; an
\* id the collection already holds is left as it is.
CollectionAdd(collection, embeddings, documents, ids) ==
    collection \o
    SelectSeq([i \in 1..Len(ids) |->
                  [id |-> ids[i], embedding |-> embeddings[i], document |-> documents[i]]],
              LAMBDA e : \A k \in 1..Len(collection) : collection[k].id # e.id)

\* df.get("embed_columns_value", pd.Series([""] * len(df))).tolist()
DocumentsOf(df) ==
    [i \in 1..Len(df.rows) |->
        IF "embed_columns_value" \in Cols(df) THEN df.rows[i]["embed_columns_value"]
        ELSE ""]

\* A batch frame carries the default row labels 0..n-1.
IdsOf(df) == [i \in 1..Len(df.rows) |-> Str(i - 1)]

ChromaInsertData(st, table_name, df, pk_columns) ==
    IF table_name \notin DOMAIN st.collections
    THEN Outcome(st, "DBOperationError", Void)
    ELSE IF \E i \in 1..Len(pk_columns) : pk_columns[i] \notin Cols(df)
    THEN Outcome(st, "DataValidationError", Void)
    ELSE LET st1 == [st EXCEPT !.data = Put(st.data, table_name,
                                            Concat(st.data[table_name], df))]
         IN  IF "embeddings" \in Cols(df)
             THEN Outcome([st1 EXCEPT !.collections[table_name] =
                              CollectionAdd(st.collections[table_name], EmbeddingsOf(df),
                                            DocumentsOf(df), IdsOf(df))],
                          "ok", Void)
             ELSE Outcome(st1, "ok", Void)

ChromaAddColumn(st, table_name, column_name, column_type) ==
    IF table_name \notin DOMAIN st.schemas
    THEN Outcome(st, "DBOperationError", Void)
    ELSE Outcome([st EXCEPT
                    !.schemas[table_name].columns =
                        DictSet(st.schemas[table_name].columns, column_name, column_type),
                    !.data[table_name] = SetColumn(st.data[table_name], column_name, None)],
                 "ok", Void)

ChromaGetActiveData(st, table_name) ==
    IF table_name \notin DOMAIN st.data THEN EmptyFrame
    ELSE ActiveData(st.data[table_name])

ChromaSetInactive(st, table_name, pk_values) ==
    IF table_name \notin DOMAIN st.data \/ pk_values = {}
    THEN Outcome(st, "ok", Void)
    ELSE Outcome([st EXCEPT !.data[table_name] = MarkRows(st.data[table_name], pk_values)],
                 "ok", Void)

ChromaUpdateData(st, table_name, df, pk_columns, single_block) ==
    IF table_name \notin DOMAIN st.data
    THEN Outcome(st, "DBOperationError", Void)
    ELSE Bind(UpdateFrame(st.data[table_name], df, pk_columns, single_block),
              LAMBDA u : Outcome([st EXCEPT !.data[table_name] = u.frame], u.err, Void))

\* collection.query(query_embeddings=[q], n_results=top_k): for the one
\* query, the ids, documents and distances of the nearest entries, nearest
\* first, as many as the collection holds up to top_k.
CollectionQuery(collection, q, top_k) ==
    LET index == [i \in 1..Len(collection) |-> collection[i].embedding]
        n     == IF top_k <= Len(collection) THEN top_k ELSE Len(collection)
        found == IndexSearch(index, q, n)
    IN  [ids       |-> <<[k \in 1..n |-> collection[found[k].label + 1].id]>>,
         documents |-> <<[k \in 1..n |-> collection[found[k].label + 1].document]>>,
         distances |-> <<[k \in 1..n |-> found[k].distance]>>]

\* One output record per element of results["ids"], that is per query.
ChromaSearch(st, table_name, query_embedding, top_k) ==
    IF table_name \notin DOMAIN st.collections
    THEN Outcome(st, "DBOperationError", Void)
    ELSE LET results == CollectionQuery(st.collections[table_name], query_embedding, top_k)
         IN  Outcome(st, "ok",
                     [k \in 1..Len(results.ids) |->
                         [id       |-> results.ids[k],
                          document |-> results.documents[k],
                          distance |-> results.distances[k]]])

ChromaGetDataColumns(st, table_name) ==
    IF table_name \in DOMAIN st.schemas THEN st.schemas[table_name].columns.keys
    ELSE <<>>

ChromaGetEmbedColumnsNames(st, table_name) ==
    IF table_name \notin DOMAIN st.schemas THEN <<>>
    ELSE SelectSeq(st.schemas[table_name].columns.keys,
                   LAMBDA c : ContainsEnc(c) \/ c = "embeddings")


(***************************************************************************)
(* Inputs                                                                   *)
(***************************************************************************)
\* create_table reads only the column labels of its sample frame.
SampleFrame  == [columns |-> <<"id", "name">>, rows |-> <<>>]
PkColumns    == <<"id">>
EmbedColumns == <<"name">>
EmbedTypes   == {"combined", "separated"}

\* The embedding provider is a function of the embedded text.
Embed(text) == IF text = "a" THEN "v0" ELSE "v2"

CombinedColumns  == <<"id", "name", "embeddings", "is_active">>
SeparatedColumns == <<"id", "name", "name_enc">>
NoPkColumns      == <<"name", "embeddings", "is_active">>

CombinedRows ==
    {[id |-> k, name |-> n, embeddings |-> Embed(n), is_active |-> PyTrue] :
        k \in Keys, n \in Names}
SeparatedRows ==
    {[id |-> k, name |-> n, name_enc |-> Embed(n)] : k \in Keys, n \in Names}
NoPkRows ==
    {[name |-> n, embeddings |-> Embed(n), is_active |-> PyTrue] : n \in Names}

Frames(columns, rowset, maxlen) ==
    {[columns |-> columns, rows |-> rs] : rs \in UNION {[1..n -> rowset] : n \in 1..maxlen}}

\* The batches a table takes: the orchestrator attaches the vectors under the
\* column names of the embedding mode the table was created with; a batch
\* for a table that does not exist, or without its key column, has any shape.
BatchesFor(st, t) ==
    Frames(NoPkColumns, NoPkRows, 1)
    \cup (IF t \in DOMAIN st.schemas /\ ~DictHas(st.schemas[t].columns, "embeddings")
          THEN {} ELSE Frames(CombinedColumns, CombinedRows, MaxBatch))
    \cup (IF t \in DOMAIN st.schemas /\ DictHas(st.schemas[t].columns, "embeddings")
          THEN {} ELSE Frames(SeparatedColumns, SeparatedRows, MaxBatch))

RowCount(st, t) == IF t \in DOMAIN st.data THEN Len(st.data[t].rows) ELSE 0

\* The bound on stored rows.
Fits(t, n) == RowCount(store, t) + n <= MaxRows

Ret(op, t, arg, o) == [op |-> op, table |-> t, arg |-> arg, err |-> o.err, val |-> o.val]

\* The history after a create_table call on t with outcome o.
Created(h, t, o) ==
    [passed |-> h.passed \cup {t},
     first  |-> IF t \in DOMAIN h.first \/ o.err # "ok" THEN h.first
                ELSE Put(h.first, t, o.val)]

NoLoad == [batch |-> <<>>, before |-> {}, err |-> "none"]

(***************************************************************************)
(* State and calls                                                          *)
(***************************************************************************)
Init ==
    /\ backend \in {"faiss", "chroma"}
    /\ store = IF backend = "faiss" THEN FaissInit ELSE ChromaInit
    /\ ret = [op |-> "init", table |-> None, arg |-> Void, err |-> "ok", val |-> Void]
    /\ hist = [passed |-> {}, first |-> <<>>]
    /\ load = NoLoad

\* A table is first created from the columns of the raw input; a later call
\* on the same name may pass another frame.
SampleFrames(t) ==
    IF t \in hist.passed
    THEN {SampleFrame, [columns |-> <<"name", "id", "price">>, rows |-> <<>>]}
    ELSE {SampleFrame}

CreateTable ==
    \E t \in Tables, embed_type \in EmbedTypes, client_ok \in BOOLEAN :
      \E df \in SampleFrames(t) :
        \E o \in {IF backend = "faiss"
                 THEN FaissCreateTable(store, t, df, PkColumns, embed_type, EmbedColumns)
                 ELSE ChromaCreateTable(store, t, df, PkColumns, embed_type,
                                        EmbedColumns, client_ok)} :
            /\ store' = o.st
            /\ ret' = Ret("create_table", t,
                          [again |-> t \in DOMAIN hist.first], o)
            /\ hist' = Created(hist, t, o)
            /\ UNCHANGED <<backend, load>>

InsertData ==
    \E t \in Tables : \E df \in BatchesFor(store, t) :
        \E o \in {IF backend = "faiss" THEN FaissInsertData(store, t, df, PkColumns)
                 ELSE ChromaInsertData(store, t, df, PkColumns)} :
            /\ Fits(t, Len(df.rows))
            /\ store' = o.st
            /\ ret' = Ret("insert_data", t, df, o)
            /\ UNCHANGED <<backend, hist, load>>

UpdateData ==
    \E t \in Tables : \E df \in BatchesFor(store, t), single_block \in BOOLEAN :
        \E o \in {IF backend = "faiss"
                 THEN FaissUpdateData(store, t, df, PkColumns, single_block)
                 ELSE ChromaUpdateData(store, t, df, PkColumns, single_block)} :
            /\ Fits(t, Len(df.rows))
            /\ store' = o.st
            /\ ret' = Ret("update_data", t, df, o)
            /\ UNCHANGED <<backend, hist, load>>

SetInactive ==
    \E t \in Tables, pk_values \in SUBSET Keys :
        \E o \in {IF backend = "faiss" THEN FaissSetInactive(store, t, pk_values)
                 ELSE ChromaSetInactive(store, t, pk_values)} :
            /\ store' = o.st
            /\ ret' = Ret("set_inactive", t, [pk_values |-> pk_values], o)
            /\ UNCHANGED <<backend, hist, load>>

AddedColumns == {"is_active"}

AddColumn ==
    \E t \in Tables, column_name \in AddedColumns :
        \E o \in {IF backend = "faiss" THEN FaissAddColumn(store, t, column_name, "text")
                 ELSE ChromaAddColumn(store, t, column_name, "text")} :
            /\ store' = o.st
            /\ ret' = Ret("add_column", t, Void, o)
            /\ UNCHANGED <<backend, hist, load>>

SearchQueries == {"v0", "v1"}

Search ==
    \E t \in Tables, query_embedding \in SearchQueries, top_k \in 1..MaxTopK :
        /\ backend = "faiss"
        /\ ret' = Ret("search", t, [top_k |-> top_k], FaissSearch(store, t, query_embedding, top_k))
        /\ UNCHANGED <<backend, store, hist, load>>

Next == CreateTable \/ InsertData \/ UpdateData \/ SetInactive \/ AddColumn \/ Search

Spec == Init /\ [][Next]_vars

\* The calls that read: list_active, the column listings, and search on the
\* document adapter.
GetActiveData ==
    \E t \in Tables :
        /\ ret' = [op |-> "get_active_data", table |-> t, arg |-> Void, err |-> "ok",
                   val |-> IF backend = "faiss" THEN FaissGetActiveData(store, t)
                           ELSE ChromaGetActiveData(store, t)]
        /\ UNCHANGED <<backend, store, hist, load>>

GetDataColumns ==
    \E t \in Tables :
        /\ ret' = [op |-> "get_data_columns", table |-> t, arg |-> Void, err |-> "ok",
                   val |-> [names |-> IF backend = "faiss" THEN FaissGetDataColumns(store, t)
                                      ELSE ChromaGetDataColumns(store, t)]]
        /\ UNCHANGED <<backend, store, hist, load>>

GetEmbedColumnsNames ==
    \E t \in Tables :
        /\ ret' = [op |-> "get_embed_columns_names", table |-> t, arg |-> Void,
                   err |-> "ok",
                   val |-> [names |-> IF backend = "faiss"
                                      THEN FaissGetEmbedColumnsNames(store, t)
                                      ELSE ChromaGetEmbedColumnsNames(store, t)]]
        /\ UNCHANGED <<backend, store, hist, load>>

SearchCollection ==
    \E t \in Tables, query_embedding \in SearchQueries, top_k \in 1..MaxTopK :
        /\ backend = "chroma"
        /\ ret' = Ret("search", t, [top_k |-> top_k],
                      ChromaSearch(store, t, query_embedding, top_k))
        /\ UNCHANGED <<backend, store, hist, load>>

\* Every call of the store contract.
NextAll ==
    \/ Next
    \/ GetActiveData
    \/ GetDataColumns
    \/ GetEmbedColumnsNames
    \/ SearchCollection

SpecAll == Init /\ [][NextAll]_vars

\* add_column with a name the schema lacks and with names it holds.
ColumnNames == {"price", "name", "is_active"}

AddNamedColumn ==
    \E t \in Tables, column_name \in ColumnNames :
        \E o \in {IF backend = "faiss" THEN FaissAddColumn(store, t, column_name, "text")
                 ELSE ChromaAddColumn(store, t, column_name, "text")} :
            /\ store' = o.st
            /\ ret' = Ret("add_column", t, [column_name |-> column_name], o)
            /\ UNCHANGED <<backend, hist, load>>

\* The calls that build a table and extend its schema.
NextColumns == CreateTable \/ InsertData \/ AddNamedColumn

SpecColumns == Init /\ [][NextColumns]_vars

\* The adapter classes behind the one store contract.
AdapterCreateTable(b, st, t, df, pk, embed_type, embed_cols, client_ok) ==
    IF b = "faiss" THEN FaissCreateTable(st, t, df, pk, embed_type, embed_cols)
    ELSE ChromaCreateTable(st, t, df, pk, embed_type, embed_cols, client_ok)

AdapterInsertData(b, st, t, df, pk) ==
    IF b = "faiss" THEN FaissInsertData(st, t, df, pk) ELSE ChromaInsertData(st, t, df, pk)

AdapterUpdateData(b, st, t, df, pk, single_block) ==
    IF b = "faiss" THEN FaissUpdateData(st, t, df, pk, single_block)
    ELSE ChromaUpdateData(st, t, df, pk, single_block)

AdapterSetInactive(b, st, t, pk_values) ==
    IF b = "faiss" THEN FaissSetInactive(st, t, pk_values)
    ELSE ChromaSetInactive(st, t, pk_values)

AdapterGetActiveData(b, st, t) ==
    IF b = "faiss" THEN FaissGetActiveData(st, t) ELSE ChromaGetActiveData(st, t)

\* The calls that leave the schema alone.
NextCore == CreateTable \/ InsertData \/ UpdateData \/ SetInactive

SpecCore == Init /\ [][NextCore]_vars

(***************************************************************************)
(* The two adapters behind the same caller                                  *)
(***************************************************************************)
\* One store of each adapter class takes every call with the same arguments:
\* store holds the pair, ret the two outcomes of the last call.
InitTwin ==
    /\ backend = "twin"
    /\ store = [faiss |-> FaissInit, chroma |-> ChromaInit]
    /\ ret = [op |-> "init", table |-> None, arg |-> Void, err |-> "ok", val |-> Void]
    /\ hist = [passed |-> {}, first |-> <<>>]
    /\ load = NoLoad

RetTwin(op, t, arg, f, c) ==
    [op |-> op, table |-> t, arg |-> arg, err |-> f.err, val |-> [chroma_err |-> c.err]]

TwinCreateTable ==
    \E t \in Tables, embed_type \in EmbedTypes, client_ok \in BOOLEAN :
      \E df \in SampleFrames(t) :
        \E f \in {FaissCreateTable(store.faiss, t, df, PkColumns, embed_type, EmbedColumns)},
           c \in {ChromaCreateTable(store.chroma, t, df, PkColumns, embed_type,
                                    EmbedColumns, client_ok)} :
            /\ store' = [faiss |-> f.st, chroma |-> c.st]
            /\ ret' = RetTwin("create_table", t, [again |-> t \in DOMAIN hist.first], f, c)
            /\ hist' = Created(hist, t, f)
            /\ UNCHANGED <<backend, load>>

\* The caller passes rows one at a time, and marks no row or one key.
TwinBatches(t) == {df \in BatchesFor(store.faiss, t) : Len(df.rows) = 1}

TwinPkValues == {{}, {"1"}}

TwinInsertData ==
    \E t \in Tables : \E df \in TwinBatches(t) :
        \E f \in {FaissInsertData(store.faiss, t, df, PkColumns)},
           c \in {ChromaInsertData(store.chroma, t, df, PkColumns)} :
            /\ RowCount(store.faiss, t) + Len(df.rows) <= MaxRows
            /\ RowCount(store.chroma, t) + Len(df.rows) <= MaxRows
            /\ store' = [faiss |-> f.st, chroma |-> c.st]
            /\ ret' = RetTwin("insert_data", t, df, f, c)
            /\ UNCHANGED <<backend, hist, load>>

TwinUpdateData ==
    \E t \in Tables : \E df \in TwinBatches(t), single_block \in BOOLEAN :
        \E f \in {FaissUpdateData(store.faiss, t, df, PkColumns, single_block)},
           c \in {ChromaUpdateData(store.chroma, t, df, PkColumns, single_block)} :
            /\ RowCount(store.faiss, t) + Len(df.rows) <= MaxRows
            /\ RowCount(store.chroma, t) + Len(df.rows) <= MaxRows
            /\ store' = [faiss |-> f.st, chroma |-> c.st]
            /\ ret' = RetTwin("update_data", t, df, f, c)
            /\ UNCHANGED <<backend, hist, load>>

TwinSetInactive ==
    \E t \in Tables, pk_values \in TwinPkValues :
        \E f \in {FaissSetInactive(store.faiss, t, pk_values)},
           c \in {ChromaSetInactive(store.chroma, t, pk_values)} :
            /\ store' = [faiss |-> f.st, chroma |-> c.st]
            /\ ret' = RetTwin("set_inactive", t, [pk_values |-> pk_values], f, c)
            /\ UNCHANGED <<backend, hist, load>>

NextTwin == TwinCreateTable \/ TwinInsertData \/ TwinUpdateData \/ TwinSetInactive

SpecTwin == InitTwin /\ [][NextTwin]_vars

(***************************************************************************)
(* A table with the composite primary key (id, k2)                          *)
(***************************************************************************)
CompositePk      == <<"id", "k2">>
CompositeColumns == <<"id", "k2", "name">>
CompositeRows    == {[id |-> k, k2 |-> k2, name |-> n] : k \in Keys, k2 \in Keys, n \in Names}

\* Batches whose rows differ in their key (id, k2).
CompositeBatches ==
    {df \in Frames(CompositeColumns, CompositeRows, MaxBatch) :
        \A i, j \in 1..Len(df.rows) :
            (df.rows[i]["id"] = df.rows[j]["id"] /\ df.rows[i]["k2"] = df.rows[j]["k2"])
                => i = j}

CreateComposite ==
    \E t \in Tables, client_ok \in BOOLEAN :
        \E o \in {AdapterCreateTable(backend, store, t,
                                    [columns |-> CompositeColumns, rows |-> <<>>],
                                    CompositePk, "combined", EmbedColumns, client_ok)} :
            /\ store' = o.st
            /\ ret' = Ret("create_table", t,
                          [again |-> t \in DOMAIN hist.first], o)
            /\ hist' = Created(hist, t, o)
            /\ UNCHANGED <<backend, load>>

InsertComposite ==
    \E t \in Tables, df \in CompositeBatches :
        \E o \in {AdapterInsertData(backend, store, t, df, CompositePk)} :
            /\ Fits(t, Len(df.rows))
            /\ store' = o.st
            /\ ret' = Ret("insert_data", t, df, o)
            /\ UNCHANGED <<backend, hist, load>>

UpdateComposite ==
    \E t \in Tables, df \in CompositeBatches, single_block \in BOOLEAN :
        \E o \in {AdapterUpdateData(backend, store, t, df, CompositePk, single_block)} :
            /\ Fits(t, Len(df.rows))
            /\ store' = o.st
            /\ ret' = Ret("update_data", t, df, o)
            /\ UNCHANGED <<backend, hist, load>>

NextComposite == CreateComposite \/ InsertComposite \/ UpdateComposite

SpecComposite == Init /\ [][NextComposite]_vars

(***************************************************************************)
(* Schema synthesis on its own: the arguments of one create_table call on   *)
(* a new table are drawn in the initial state.                              *)
(***************************************************************************)
SchemaInputColumns ==
    {<<"id", "name", "description">>, <<"id", "name">>, <<"id", "name", "is_active">>,
     <<"id", "name", "embeddings">>, <<"id", "name", "name_enc">>,
     <<"id", "embed_columns_value", "name">>, <<"embed_columns_names", "id">>}

SchemaSourceColumns ==
    {<<"name", "description">>, <<"name">>, <<"description", "name">>, <<>>}

InitSchema ==
    /\ backend \in {"faiss", "chroma"}
    /\ store = IF backend = "faiss" THEN FaissInit ELSE ChromaInit
    /\ \E cols \in SchemaInputColumns, embed_type \in EmbedTypes,
          src \in SchemaSourceColumns :
          ret = [op |-> "input", table |-> "t1",
                 arg |-> [columns |-> cols, embed_type |-> embed_type,
                          embed_columns_names |-> src],
                 err |-> "ok", val |-> Void]
    /\ hist = [passed |-> {}, first |-> <<>>]
    /\ load = NoLoad

Synthesize ==
    \E o \in {AdapterCreateTable(backend, store, ret.table,
                                [columns |-> ret.arg.columns, rows |-> <<>>], PkColumns,
                                ret.arg.embed_type, ret.arg.embed_columns_names, TRUE)} :
        /\ ret.op = "input"
        /\ store' = o.st
        /\ ret' = [ret EXCEPT !.op = "create_table", !.err = o.err, !.val = o.val]
        /\ hist' = Created(hist, ret.table, o)
        /\ UNCHANGED <<backend, load>>

SpecSchema == InitSchema /\ [][Synthesize]_vars

(***************************************************************************)
(* Reconciliation run on one table (the use-case layer that drives the      *)
(* adapters): create_table, then update for the batch rows whose key is in  *)
(* the active set read before the batch, insert for the others, then        *)
(* mark_inactive for the keys that were active and are not in the batch.    *)
(* The first adapter call that raises ends the run.                         *)
(***************************************************************************)
KeysOf(rows, pk) == {rows[i][pk] : i \in 1..Len(rows)}

\* Step 3, after update and insert went through (i: the outcome of insert).
ReconcileInactive(b, i, t, df, pk, before, c) ==
    IF i.err # "ok" THEN [st |-> i.st, err |-> i.err, before |-> before, created |-> c]
    ELSE Bind(AdapterSetInactive(b, i.st, t, before \ KeysOf(df.rows, pk)),
              LAMBDA m : [st |-> m.st, err |-> m.err, before |-> before, created |-> c])

\* Step 2, second half: insert the rows whose key was not active (u: the
\* outcome of update).
ReconcileInsert(b, u, t, df, pk_columns, before, c) ==
    LET pk  == pk_columns[1]
        new == [columns |-> df.columns,
                rows    |-> SelectSeq(df.rows, LAMBDA r : r[pk] \notin before)]
    IN  IF u.err # "ok" THEN [st |-> u.st, err |-> u.err, before |-> before, created |-> c]
        ELSE Bind(IF new.rows = <<>> THEN Outcome(u.st, "ok", Void)
                  ELSE AdapterInsertData(b, u.st, t, new, pk_columns),
                  LAMBDA i : ReconcileInactive(b, i, t, df, pk, before, c))

\* Step 2, first half: update the rows whose key is in the active set read
\* before the batch (c: the outcome of create_table).
ReconcileUpdate(b, c, t, df, pk_columns, before, single_block) ==
    LET pk      == pk_columns[1]
        changed == [columns |-> df.columns,
                    rows    |-> SelectSeq(df.rows, LAMBDA r : r[pk] \in before)]
    IN  Bind(IF changed.rows = <<>> THEN Outcome(c.st, "ok", Void)
             ELSE AdapterUpdateData(b, c.st, t, changed, pk_columns, single_block),
             LAMBDA u : ReconcileInsert(b, u, t, df, pk_columns, before, c))

Reconcile(b, st, t, df, pk_columns, embed_type, embed_cols, client_ok, single_block) ==
    Bind(AdapterCreateTable(b, st, t, df, pk_columns, embed_type, embed_cols, client_ok),
         LAMBDA c :
            IF c.err # "ok" THEN [st |-> c.st, err |-> c.err, before |-> {}, created |-> c]
            ELSE Bind(KeysOf(AdapterGetActiveData(b, c.st, t).rows, pk_columns[1]),
                      LAMBDA before :
                         ReconcileUpdate(b, c, t, df, pk_columns, before, single_block)))

UniqueKeys(rows, pk) == \A i, j \in 1..Len(rows) : rows[i][pk] = rows[j][pk] => i = j

\* The batches of a run: unique keys, vectors attached under the column names
\* of the embedding mode of the table.
LoadBatches(st, t, embed_type) ==
    LET combined == IF t \in DOMAIN st.schemas
                    THEN DictHas(st.schemas[t].columns, "embeddings")
                    ELSE embed_type = "combined"
    IN  {df \in (IF combined THEN Frames(CombinedColumns, CombinedRows, MaxBatch)
                 ELSE Frames(SeparatedColumns, SeparatedRows, MaxBatch)) :
            UniqueKeys(df.rows, "id")}

Load ==
    \E t \in Tables, embed_type \in EmbedTypes, client_ok \in BOOLEAN,
       single_block \in BOOLEAN :
        \E df \in LoadBatches(store, t, embed_type) :
            \E r \in {Reconcile(backend, store, t, df, PkColumns, embed_type, EmbedColumns,
                               client_ok, single_block)} :
                /\ RowCount(store, t) + Len(df.rows) <= MaxLoadRows
                /\ store' = r.st
                /\ load' = [batch |-> df.rows, before |-> r.before, err |-> r.err]
                /\ ret' = [op |-> "load", table |-> t, arg |-> Void, err |-> r.err,
                           val |-> Void]
                /\ hist' = Created(hist, t, r.created)
                /\ UNCHANGED backend

SpecLoad == Init /\ [][Load]_vars

(***************************************************************************)
(* Properties                                                               *)
(***************************************************************************)
StoredRows(t) == IF t \in DOMAIN store.data THEN store.data[t].rows ELSE <<>>

\* Positions of the rows list_active returns.
ActivePositions(t) ==
    {j \in 1..Len(StoredRows(t)) :
        "is_active" \in DOMAIN StoredRows(t)[j] => IsActiveRow(StoredRows(t)[j])}

\* A reconciliation run has taken place and the backend behind the adapter
\* was available to it.
Loaded(l) == l.err \notin {"none", "ChromaError"}

\* C1: after a reconciliation run, every key of the batch has exactly one
\* row in list_active and that row holds the values of the batch.
C1_UpsertLatest ==
    Loaded(load) =>
        \A i \in 1..Len(load.batch) :
            LET row  == load.batch[i]
                same == {j \in ActivePositions("t1") : StoredRows("t1")[j]["id"] = row["id"]}
            IN  /\ Cardinality(same) = 1
                /\ \A j \in same : \A c \in DOMAIN row : StoredRows("t1")[j][c] = row[c]

\* C2: after a reconciliation run, no key that was active before the run and
\* is absent from its batch has a row in list_active, and the run removed no
\* stored row.
C2_SoftDeleteByOmission ==
    [][Loaded(load') =>
          /\ \A k \in load'.before \ KeysOf(load'.batch, "id") :
                \A j \in ActivePositions("t1")' : StoredRows("t1")'[j]["id"] # k
          /\ Len(StoredRows("t1")') >= Len(StoredRows("t1"))]_vars

\* Rows r and row agree on every declared key column.
KeyMatch(r, row, pk_columns) ==
    \A k \in 1..Len(pk_columns) : r[pk_columns[k]] = row[pk_columns[k]]

\* update(old, df) = new as the contract of update states it for the key
\* pk_columns: a stored row is replaced by the input row that equals it on
\* every key column, a stored row no input row equals on every key column is
\* left as it was, and the input rows without such a stored row are appended,
\* one new row each, in batch order.
Updated(old, new, df, pk_columns) ==
    LET unmatched == SelectSeq(df.rows,
                               LAMBDA row : \A j \in 1..Len(old) :
                                               ~KeyMatch(old[j], row, pk_columns))
    IN  /\ Len(new) = Len(old) + Len(unmatched)
        /\ \A j \in 1..Len(old) :
              IF \E i \in 1..Len(df.rows) : KeyMatch(old[j], df.rows[i], pk_columns)
              THEN \E i \in 1..Len(df.rows) :
                      /\ KeyMatch(old[j], df.rows[i], pk_columns)
                      /\ \A c \in DOMAIN df.rows[i] : new[j][c] = df.rows[i][c]
              ELSE new[j] = old[j]
        /\ \A i \in 1..Len(unmatched) :
              \A c \in DOMAIN unmatched[i] : new[Len(old) + i][c] = unmatched[i][c]

\* C3: update with the composite key (id, k2) on an existing table replaces
\* only the stored rows that equal an input row on both key columns, appends
\* the input rows no stored row equals on both, and leaves every other
\* stored row unchanged.
C3_CompositeKeyUpdate ==
    [][(ret'.op = "update_data" /\ "t1" \in DOMAIN hist.first) =>
          Updated(StoredRows("t1"), StoredRows("t1")', ret'.arg, CompositePk)]_vars

\* C4: a stored row whose is_active is false is not in list_active after
\* any adapter call.
C4_NoReactivation ==
    [][\A j \in 1..Len(StoredRows("t1")) :
          ("is_active" \in DOMAIN StoredRows("t1")[j]
             /\ StoredRows("t1")[j]["is_active"] = PyFalse)
          => j \notin ActivePositions("t1")']_vars

\* The vectors the index of table t holds, in index order.
IndexVectors(t) ==
    IF backend = "faiss"
    THEN (IF t \in DOMAIN store.indexes THEN store.indexes[t] ELSE <<>>)
    ELSE (IF t \in DOMAIN store.collections
          THEN [i \in 1..Len(store.collections[t]) |-> store.collections[t][i].embedding]
          ELSE <<>>)

\* The populated embedding column of a frame: `embeddings` in combined mode,
\* `name_enc` (the one source column) in separated mode.
VectorColumn(columns) ==
    IF "embeddings" \in SeqSet(columns) THEN "embeddings" ELSE Enc(EmbedColumns[1])

\* The vectors a batch carries, in row order.
BatchVectors(df) == [i \in 1..Len(df.rows) |-> df.rows[i][VectorColumn(df.columns)]]

\* C5: an insert that goes through appends the vector of every row of the
\* batch to the index of the table, in batch row order, whether the batch
\* carries `embeddings` (combined) or `name_enc` (separated).
C5_InsertIndexesBatch ==
    [][(ret'.op = "insert_data" /\ ret'.err = "ok") =>
          IndexVectors("t1")' = IndexVectors("t1") \o BatchVectors(ret'.arg)]_vars

\* C6: in the flat-index adapter the index of every table holds one vector
\* per stored row, and the vector at position i is the embedding stored in
\* row i.
C6_IndexRowConsistency ==
    backend = "faiss" =>
        \A t \in DOMAIN store.indexes :
            LET rows  == store.data[t].rows
                index == store.indexes[t]
                col   == VectorColumn(store.data[t].columns)
            IN  /\ Len(index) = Len(rows)
                /\ \A i \in 1..Len(rows) : index[i] = rows[i][col]

Min(a, b) == IF a <= b THEN a ELSE b

\* C7: a search with top_k on an existing table of the flat-index adapter
\* with N indexed vectors returns, without error, min(top_k, N) results,
\* each a different stored row, in order of non-decreasing distance.
C7_SearchCountAndOrder ==
    (ret.op = "search" /\ ret.table \in DOMAIN store.indexes) =>
        /\ ret.err = "ok"
        /\ Len(ret.val) = Min(ret.arg.top_k, Len(store.indexes[ret.table]))
        /\ \A i, j \in 1..Len(ret.val) : ret.val[i].iloc = ret.val[j].iloc => i = j
        /\ \A i, j \in 1..Len(ret.val) : i < j => ret.val[i].distance <= ret.val[j].distance

\* C8: an insert on a table name never passed to create_table raises
\* DBOperationError, an insert on a created table with a batch that lacks the
\* primary-key column raises DataValidationError, and in both cases the rows,
\* the schema and the index of every table stay as they were.
C8_InsertErrorContract ==
    [][ret'.op = "insert_data" =>
          /\ ret'.table \notin hist.passed =>
                (ret'.err = "DBOperationError" /\ store' = store)
          /\ (ret'.table \in DOMAIN hist.first
                /\ \E k \in 1..Len(PkColumns) : PkColumns[k] \notin Cols(ret'.arg)) =>
                (ret'.err = "DataValidationError" /\ store' = store)]_vars

\* An insert without the key column was refused on a table that holds rows.
C8_Witness ==
    /\ ret.op = "insert_data"
    /\ ret.err = "DataValidationError"
    /\ "id" \notin Cols(ret.arg)
    /\ Len(StoredRows("t1")) > 0

\* C9: create_table on a table that exists returns the schema its first
\* call returned and leaves the rows, the schema and the index unchanged,
\* whatever frame and embedding mode it is given.
C9_CreateExistingIsNoOp ==
    [][(ret'.op = "create_table" /\ ret'.arg.again) =>
          /\ ret'.err = "ok"
          /\ ret'.val = hist.first[ret'.table]
          /\ store' = store]_vars

\* create_table was called again on a table that holds rows, one of them
\* inactive.
C9_Witness ==
    /\ ret.op = "create_table"
    /\ ret.arg.again
    /\ Len(StoredRows("t1")) > 1
    /\ ActivePositions("t1") # 1..Len(StoredRows("t1"))

\* The column names of the schema inputs, and the names of the form <c>_enc.
SchemaNames ==
    UNION {SeqSet(cols) : cols \in SchemaInputColumns \cup SchemaSourceColumns}

IsEncName(x) == \E c \in SchemaNames : x = Enc(c)

\* The columns of type vector in a column-type map.
VectorColumns(column_types) ==
    {c \in SeqSet(column_types.keys) : DictGet(column_types, c) = VectorType}

\* The names create_table adds in a mode for the source columns S.
Synthesized(embed_type, S) ==
    {"embed_columns_names", "is_active"}
    \cup (IF embed_type = "combined" THEN {"embed_columns_value", "embeddings"}
          ELSE {Enc(c) : c \in SeqSet(S)})

\* C10 as claimed: every input column is text, embed_columns_names and
\* is_active are present; separated: the vector columns are the <c>_enc of
\* the source columns and embeddings and embed_columns_value are absent;
\* combined: embeddings is the only vector column, embed_columns_value is
\* present and no <c>_enc column is.
C10_SchemaByModeAsClaimed ==
    ret.op = "create_table" =>
        LET types == ret.val
            S     == ret.arg.embed_columns_names
        IN  /\ \A c \in SeqSet(ret.arg.columns) : DictGet(types, c) = "text"
            /\ DictHas(types, "embed_columns_names") /\ DictHas(types, "is_active")
            /\ ret.arg.embed_type = "separated" =>
                  /\ VectorColumns(types) = {Enc(c) : c \in SeqSet(S)}
                  /\ ~DictHas(types, "embeddings")
                  /\ ~DictHas(types, "embed_columns_value")
            /\ ret.arg.embed_type = "combined" =>
                  /\ VectorColumns(types) = {"embeddings"}
                  /\ DictHas(types, "embed_columns_value")
                  /\ \A c \in SeqSet(types.keys) : ~IsEncName(c)

\* C10, amended: the input columns that do not bear a name create_table adds
\* are text, embed_columns_names is text[] and is_active boolean; separated:
\* the vector columns are the <c>_enc of the source columns, and embeddings
\* and embed_columns_value are present only as input columns; combined:
\* embeddings is the only vector column, embed_columns_value is text, and a
\* <c>_enc column is present only as an input column.  The schema stored for
\* the table is the one returned.
C10_SchemaByMode ==
    ret.op = "create_table" =>
        LET types == ret.val
            S     == ret.arg.embed_columns_names
            input == SeqSet(ret.arg.columns)
        IN  /\ store.schemas[ret.table].columns = types
            /\ SeqSet(types.keys) = input \cup Synthesized(ret.arg.embed_type, S)
            /\ \A c \in input \ Synthesized(ret.arg.embed_type, S) :
                  DictGet(types, c) = "text"
            /\ DictHas(types, "embed_columns_names")
            /\ DictGet(types, "embed_columns_names") = "text[]"
            /\ DictHas(types, "is_active")
            /\ DictGet(types, "is_active") = "boolean"
            /\ ret.arg.embed_type = "separated" =>
                  /\ VectorColumns(types) = {Enc(c) : c \in SeqSet(S)}
                  /\ DictHas(types, "embeddings") <=> "embeddings" \in input
                  /\ DictHas(types, "embed_columns_value") <=>
                        "embed_columns_value" \in input
            /\ ret.arg.embed_type = "combined" =>
                  /\ VectorColumns(types) = {"embeddings"}
                  /\ DictHas(types, "embed_columns_value")
                  /\ DictGet(types, "embed_columns_value") = "text"
                  /\ \A c \in SeqSet(types.keys) : IsEncName(c) => c \in input

\* A separated schema was synthesized for the source columns name and
\* description from input columns one of which is named name_enc.
C10_Witness ==
    /\ ret.op = "create_table"
    /\ ret.arg.embed_type = "separated"
    /\ ret.arg.embed_columns_names = <<"name", "description">>
    /\ "name_enc" \in SeqSet(ret.arg.columns)
    /\ VectorColumns(ret.val) = {"name_enc", "description_enc"}

\* The frame of table t, columns and rows.
StoredFrame(t) == IF t \in DOMAIN store.data THEN store.data[t] ELSE EmptyFrame

\* C11: set_inactive on a table never passed to create_table, or with an
\* empty set, changes nothing; otherwise it leaves the schemas, the indexes
\* and the columns alone, keeps every row in place, sets is_active to false
\* on the rows whose leading-column value is in the set without touching
\* their other columns, and leaves every other row as it was.
C11_MarkInactiveFrame ==
    [][ret'.op = "set_inactive" =>
          LET S   == ret'.arg.pk_values
              old == StoredFrame("t1")
              new == StoredFrame("t1")'
          IN  IF "t1" \notin hist.passed \/ S = {}
              THEN store' = store
              ELSE /\ ret'.err = "ok"
                   /\ store' = [store EXCEPT !.data["t1"] = new]
                   /\ new.columns = old.columns
                   /\ Len(new.rows) = Len(old.rows)
                   /\ \A j \in 1..Len(old.rows) :
                         IF old.rows[j][old.columns[1]] \in S
                         THEN /\ new.rows[j]["is_active"] = PyFalse
                              /\ \A c \in DOMAIN old.rows[j] \ {"is_active"} :
                                    new.rows[j][c] = old.rows[j][c]
                              /\ DOMAIN new.rows[j] = DOMAIN old.rows[j]
                         ELSE new.rows[j] = old.rows[j]]_vars

\* set_inactive was called with one key on a table holding a row with that
\* key and an active row with another key.
C11_Witness ==
    /\ ret.op = "set_inactive"
    /\ ret.arg.pk_values = {"1"}
    /\ \E i, j \in 1..Len(StoredRows("t1")) :
          /\ StoredRows("t1")[i]["id"] = "1"
          /\ StoredRows("t1")[i]["is_active"] = PyFalse
          /\ StoredRows("t1")[j]["id"] = "2"
          /\ StoredRows("t1")[j]["is_active"] = PyTrue

\* Row r does not carry an explicit false in is_active.
NotFalse(r) == "is_active" \in DOMAIN r => r["is_active"] # PyFalse

\* result holds exactly the rows of stored that are not explicitly false, in
\* the order of storage.
ExactlyActive(result, stored) ==
    LET keep == {j \in 1..Len(stored) : NotFalse(stored[j])}
    IN  /\ Len(result) = Cardinality(keep)
        /\ \A j \in keep :
              result[Cardinality({i \in keep : i <= j})] = stored[j]

\* C12: get_active_data changes no state, returns no row for a table never
\* passed to create_table, and otherwise returns exactly the stored rows
\* whose is_active is not False (NaN and None included), in stored order.
C12_ListActive ==
    [][ret'.op = "get_active_data" =>
          /\ store' = store
          /\ "t1" \notin hist.passed => ret'.val.rows = <<>>
          /\ ExactlyActive(ret'.val.rows, StoredRows("t1"))]_vars

\* list_active was called on a table holding an inactive row, an active row
\* and a row whose is_active is NaN.
C12_Witness ==
    /\ ret.op = "get_active_data"
    /\ Len(ret.val.rows) = 1
    /\ \E i, j \in 1..Len(StoredRows("t1")) :
          /\ StoredRows("t1")[i]["is_active"] = PyFalse
          /\ StoredRows("t1")[j]["is_active"] = NaN
          /\ ret.val.rows[1] = StoredRows("t1")[j]

\* The table names of the three per-table maps of the adapter: schemas, row
\* data, and indexes (collections on the document adapter).
SchemaNamesOf(st) == DOMAIN st.schemas
DataNamesOf(st)   == DOMAIN st.data
IndexNamesOf(st)  == IF "indexes" \in DOMAIN st THEN DOMAIN st.indexes
                     ELSE DOMAIN st.collections

\* A table no map of the adapter knows; a table every map knows.
Unknown(st, t) == t \notin SchemaNamesOf(st) \cup DataNamesOf(st) \cup IndexNamesOf(st)
Exists(st, t)  == t \in SchemaNamesOf(st) \cap DataNamesOf(st) \cap IndexNamesOf(st)

\* C13: on an unknown table insert, update, search and add_column raise
\* DBOperationError, and set_inactive, get_active_data and the two column
\* listings return nothing, all without a change of state; only create_table
\* adds a table name to a map; no map ever loses a name, so a table that
\* exists keeps existing.
C13_TableLifecycle ==
    [][/\ (Unknown(store, ret'.table)
             /\ ret'.op \in {"insert_data", "update_data", "search", "add_column"})
          => (ret'.err = "DBOperationError" /\ store' = store)
       /\ (Unknown(store, ret'.table) /\ ret'.op = "set_inactive")
          => (ret'.err = "ok" /\ ret'.val = Void /\ store' = store)
       /\ (Unknown(store, ret'.table) /\ ret'.op = "get_active_data")
          => (ret'.err = "ok" /\ ret'.val.rows = <<>> /\ store' = store)
       /\ (Unknown(store, ret'.table)
             /\ ret'.op \in {"get_data_columns", "get_embed_columns_names"})
          => (ret'.err = "ok" /\ ret'.val.names = <<>> /\ store' = store)
       /\ ret'.op # "create_table"
          => /\ SchemaNamesOf(store') = SchemaNamesOf(store)
             /\ DataNamesOf(store') = DataNamesOf(store)
             /\ IndexNamesOf(store') = IndexNamesOf(store)
       /\ SchemaNamesOf(store) \subseteq SchemaNamesOf(store')
       /\ DataNamesOf(store) \subseteq DataNamesOf(store')
       /\ IndexNamesOf(store) \subseteq IndexNamesOf(store')
       /\ \A t \in Tables : Exists(store, t) => Exists(store', t)]_vars

\* add_column was refused on a table that was never created.
C13_Witness ==
    /\ ret.op = "add_column"
    /\ ret.err = "DBOperationError"
    /\ Unknown(store, "t1")

\* C14: the nullability map of every schema has exactly the column names of
\* its column-type map.
C14_NullablesMatchColumns ==
    \A t \in DOMAIN store.schemas :
        SeqSet(store.schemas[t].nullables.keys) = SeqSet(store.schemas[t].columns.keys)

\* C15: add_column on an unknown table raises DBOperationError and changes
\* nothing; on a known table it keeps every column of the schema, keeps
\* every row and the value of every column the rows had before the call,
\* and a column the table did not have is None on every row.
C15_AddColumnOnlyAdds ==
    [][(ret'.op = "add_column" /\ ret'.arg # Void) =>
          LET c   == ret'.arg.column_name
              old == StoredFrame("t1")
              new == StoredFrame("t1")'
          IN  IF Unknown(store, "t1")
              THEN ret'.err = "DBOperationError" /\ store' = store
              ELSE /\ ret'.err = "ok"
                   /\ SeqSet(store.schemas["t1"].columns.keys)
                         \subseteq SeqSet(store'.schemas["t1"].columns.keys)
                   /\ c \in SeqSet(store'.schemas["t1"].columns.keys)
                   /\ Len(new.rows) = Len(old.rows)
                   /\ \A j \in 1..Len(old.rows) :
                         /\ \A k \in Cols(old) : new.rows[j][k] = old.rows[j][k]
                         /\ c \notin Cols(old) => new.rows[j][c] = None]_vars

\* The entries of the collection behind table t.
Entries(t) == IF t \in DOMAIN store.collections THEN store.collections[t] ELSE <<>>

\* C16: a successful search on the document adapter returns one record per
\* matched row, as many as the collection holds up to top_k; every record
\* identifies one entry of the collection by one id, one document and one
\* distance, and the records are ordered nearest first.  The code puts a
\* list in each field: a record stands for one row when each list has one
\* element.
C16_SearchRecordPerRow ==
    (ret.op = "search" /\ backend = "chroma" /\ ret.err = "ok") =>
        LET out == ret.val
            E   == Entries(ret.table)
        IN  /\ Len(out) = Min(ret.arg.top_k, Len(E))
            /\ \A k \in 1..Len(out) :
                  /\ Len(out[k].id) = 1
                  /\ Len(out[k].document) = 1
                  /\ Len(out[k].distance) = 1
                  /\ \E i \in 1..Len(E) : E[i].id = out[k].id[1]
            /\ \A k \in 1..Len(out) - 1 :
                  out[k].distance[1] <= out[k + 1].distance[1]

\* C18: the schemas, the row data and the indexes or collections of an
\* adapter hold the same table names in every reachable state, also after a
\* create_table whose collection could not be created.
C18_RegistryAgreement ==
    /\ SchemaNamesOf(store) = DataNamesOf(store)
    /\ DataNamesOf(store) = IndexNamesOf(store)

\* C19: on the document adapter every successful insert of a batch with an
\* embeddings column adds one collection entry per row of the batch, under
\* ids that differ from each other and from the ids of all earlier entries.
C19_CollectionIdsUnique ==
    [][(backend = "chroma" /\ ret'.op = "insert_data" /\ ret'.err = "ok"
          /\ "embeddings" \in Cols(ret'.arg)) =>
          LET old == Entries("t1")
              new == Entries("t1")'
          IN  /\ Len(new) = Len(old) + Len(ret'.arg.rows)
              /\ \A i, j \in 1..Len(new) : new[i].id = new[j].id => i = j
              /\ \A i \in 1..Len(old) : new[i] = old[i]
              /\ \A i \in Len(old) + 1..Len(new), j \in 1..Len(old) :
                    new[i].id # old[j].id]_vars

\* The labels of the stored rows a search of the flat-index adapter returns.
FaissFound(o) == [k \in 1..Len(o.val) |-> Str(o.val[k].iloc - 1)]

RECURSIVE Flatten(_)
Flatten(ss) == IF ss = <<>> THEN <<>> ELSE Head(ss) \o Flatten(Tail(ss))

\* The ids a search of the document adapter returns, in order.
ChromaFound(o) == Flatten([k \in 1..Len(o.val) |-> o.val[k].id])

\* C17: after every step of the same sequence of create_table, insert,
\* update and mark_inactive calls the two adapters list the same active
\* rows and the same columns, and every search ends the same way on both
\* and identifies the same stored rows in the same order.
C17_BackendIndependence ==
    backend = "twin" =>
        \A t \in Tables :
            /\ FaissGetActiveData(store.faiss, t) = ChromaGetActiveData(store.chroma, t)
            /\ FaissGetDataColumns(store.faiss, t) = ChromaGetDataColumns(store.chroma, t)
            /\ FaissGetEmbedColumnsNames(store.faiss, t)
                  = ChromaGetEmbedColumnsNames(store.chroma, t)
            /\ \A q \in SearchQueries, top_k \in 1..MaxTopK :
                  LET f == FaissSearch(store.faiss, t, q, top_k)
                      c == ChromaSearch(store.chroma, t, q, top_k)
                  IN  /\ f.err = c.err
                      /\ f.err = "ok" => FaissFound(f) = ChromaFound(c)

====
